---- MODULE Spec2Model ----
(***************************************************************************)
(* A model of flask-restle (src/flask_restle/__init__.py): the API view's  *)
(* dispatch_request / build_response, the api_error type with the global   *)
(* error handler installed by restle(), and register_api.                  *)
(*                                                                         *)
(* Python values are written as the strings of their literals ("[]",       *)
(* "{'a': 1}"), None as the string "None".  An optional attribute (a       *)
(* status that may be None, an instance attribute that may be absent) is a *)
(* sequence of length 0 or 1.  A dict is the set of its <<key, value>>     *)
(* pairs; the response_headers dict is the set of its header names.        *)
(***************************************************************************)
EXTENDS Integers, Sequences, FiniteSets, TLC

VARIABLES
    response_headers,   \* the dict object bound to the class attribute API.response_headers
    inst,               \* per worker: the request in flight and the view instance serving it
    url_map,            \* the rules register_api has added to the blueprint
    reg,                \* the arguments of the register_api call
    routed              \* the router's answer for the last request matched against url_map

vars == <<response_headers, inst, url_map, reg, routed>>

None == "None"

Threads == {"t1", "t2"}

----------------------------------------------------------------------------
(* The request as the framework presents it.                               *)

\* str.lower() on request.method
Lower(m) ==
    CASE m = "GET" -> "get"
      [] m = "POST" -> "post"
      [] m = "PUT" -> "put"
      [] m = "PATCH" -> "patch"
      [] m = "DELETE" -> "delete"
      [] m = "HEAD" -> "head"
      [] OTHER -> m

\* request.mimetype: the Content-Type header without its parameters, lowercased
\* ("" when the request has no Content-Type)
Mimetype(content_type) ==
    CASE content_type = "application/json" -> "application/json"
      [] content_type = "application/json; charset=utf-8" -> "application/json"
      [] content_type = "text/plain" -> "text/plain"
      [] content_type = "application/x-www-form-urlencoded" -> "application/x-www-form-urlencoded"
      [] OTHER -> ""

\* request.data: the raw body, read after the framework has parsed form data;
\* a form-encoded body is consumed by the form parser and data is then empty
RequestData(request) ==
    IF Mimetype(request.content_type) = "application/x-www-form-urlencoded"
    THEN ""
    ELSE request.body

\* The view classes of the application: WidgetAPI defines all five verbs,
\* ReadOnlyAPI only get.  getattr(self, name, None) is not None for these.
Handlers(view) ==
    IF view = "WidgetAPI" THEN {"get", "post", "put", "patch", "delete"}
    ELSE {"get"}

----------------------------------------------------------------------------
(* API                                                                     *)

response_mimetype == "application/json"

response_status_defaults(m) ==
    CASE m = "delete" -> 200
      [] m = "get" -> 200
      [] m = "patch" -> 200
      [] m = "post" -> 200
      [] m = "put" -> 201

\* dispatch_init as defined on API: the arguments as they came
dispatch_init(kwargs) == kwargs

\* An overriding dispatch_init that normalizes the primary key
normalizing_dispatch_init(kwargs) ==
    IF kwargs = None THEN None ELSE "n" \o kwargs

\* line 39: the condition of the 415
ContentTypeRejected(request) ==
    RequestData(request) # "" /\ Mimetype(request.content_type) # "application/json"

\* line 45: the condition of the 405
MethodRejectedNoHandlerCheck(view, m) ==
    m \notin {"get", "put", "post", "delete", "patch"}

MethodRejected(view, m) ==
    m \notin {"get", "put", "post", "delete", "patch"} \/ m \notin Handlers(view)

\* line 53: type(output) == type(BaseResponse())
IsBaseResponse(output) == output = "BaseResponse()"

\* json.dumps(output, indent=4, sort_keys=True) of the values handlers return;
\* a response object is not JSON serializable
Serializable(output) == output \notin {"BaseResponse()", "Response()"}

json_dumps(output) ==
    CASE output = "''" -> "\"\""
      [] output = "[]" -> "[]"
      [] output = "{}" -> "{}"
      [] output = "0" -> "0"
      [] output = "[1]" -> "[\n    1\n]"
      [] output = "{'a': 1}" -> "{\n    \"a\": 1\n}"
      [] OTHER -> "null"

\* lines 57-58: what dispatch_request hands to build_response
JsonBodyIfTruthy(output) ==
    IF output \notin {None, "''", "[]", "{}", "0"} THEN json_dumps(output) ELSE None

JsonBody(output) ==
    IF output # None THEN json_dumps(output) ELSE None

\* Python truthiness of a body (None or a str) and of a status (None or an int)
Falsy(body) == body = None \/ body = ""
StatusSet(status) == status # <<>> /\ status[1] # 0

\* lines 63-66
BuildMimetype(body) == IF Falsy(body) THEN None ELSE response_mimetype

\* lines 68-71
BuildStatusKeepOverride(status, m, body) ==
    IF StatusSet(status) THEN status[1]
    ELSE IF response_status_defaults(m) = 200 /\ Falsy(body) THEN 204
    ELSE response_status_defaults(m)

BuildStatusAlwaysDowngrade(status, m, body) ==
    LET s == IF StatusSet(status) THEN status[1] ELSE response_status_defaults(m)
    IN  IF s = 200 THEN 204 ELSE s

BuildStatus(status, m, body) ==
    LET s == IF StatusSet(status) THEN status[1] ELSE response_status_defaults(m)
    IN  IF s = 200 /\ Falsy(body) THEN 204 ELSE s

----------------------------------------------------------------------------
(* api_error                                                               *)

\* api_error.__init__: status_code stays the class default 400 unless one is given
ApiError(message, status_code, payload) ==
    [type |-> "api_error",
     message |-> message,
     status_code |-> IF status_code # <<>> THEN status_code[1] ELSE 400,
     payload |-> payload]

\* dict(self.payload or ()): a fresh dict with the payload's entries
DictOfPayload(payload) ==
    IF payload = <<>> \/ payload[1] = {} THEN {} ELSE payload[1]

\* rv[key] = value
SetItem(d, key, value) == {kv \in d : kv[1] # key} \cup {<<key, value>>}

\* rv.setdefault(key, value)
SetDefault(d, key, value) ==
    IF \E kv \in d : kv[1] = key THEN d ELSE d \cup {<<key, value>>}

to_dict_keeping_payload_key(error) ==
    SetDefault(DictOfPayload(error.payload), "error_message", error.message)

to_dict(error) ==
    SetItem(DictOfPayload(error.payload), "error_message", error.message)

\* sort_keys=True over the keys that occur
KeyRank(key) ==
    CASE key = "error_message" -> 1
      [] key = "field" -> 2
      [] OTHER -> 3

RECURSIVE SortedItems(_)
SortedItems(d) ==
    IF d = {} THEN <<>>
    ELSE LET first == CHOOSE kv \in d : \A other \in d : KeyRank(kv[1]) <= KeyRank(other[1])
         IN  <<first>> \o SortedItems(d \ {first})

\* json.dumps(mapping, indent=4, sort_keys=True): the members in key order
json_dumps_object(d) == [json_object |-> SortedItems(d)]

\* line 95 copies: to_dict leaves self.payload as it was
payload_after_to_dict(error) == error.payload

\* api_error.response
ErrorResponse(error) ==
    [kind |-> "error",
     body |-> json_dumps_object(to_dict(error)),
     status |-> error.status_code,
     mimetype |-> "application/json",
     headers |-> {}]

----------------------------------------------------------------------------
(* One request: the view function made by as_view creates a fresh API      *)
(* instance and calls its dispatch_request.                                *)

IdleInst ==
    [pc |-> "idle",
     request |-> [method |-> "-", content_type |-> "-", body |-> ""],
     view |-> "-",
     kwargs |-> "-",
     method |-> None,              \* self.method
     response_status |-> <<>>,     \* self.response_status (None on the class)
     own_headers |-> <<>>,         \* an instance attribute response_headers, if assigned
     hook_calls |-> 0,
     handler_calls |-> 0,
     hook_ret |-> "-",
     handler_kwargs |-> "-",
     output |-> "-",
     set_headers |-> {},           \* the headers this request's handler set
     raised_by |-> "-",
     raise_args |-> <<>>,          \* the arguments api_error was constructed with
     error |-> <<>>,
     response |-> <<>>]

\* raise api_error(message, status_code, payload)
Raise(r, by, args) ==
    [r EXCEPT !.pc = "raised", !.raised_by = by, !.raise_args = <<args>>,
              !.error = <<ApiError(args.message, args.status_code, args.payload)>>]

ErrorArgs(message, status_code, payload) ==
    [message |-> message, status_code |-> status_code, payload |-> payload]

\* The router hands a request to the view function; a new instance is made.
Receive(t, I) ==
    /\ inst[t].pc = "idle"
    /\ \E m \in I.methods, ct \in I.content_types, b \in I.bodies,
          v \in I.views, k \in I.kwargs :
          inst' = [inst EXCEPT ![t] =
                      [IdleInst EXCEPT !.pc = "dispatch",
                                       !.request = [method |-> m, content_type |-> ct, body |-> b],
                                       !.view = v,
                                       !.kwargs = k]]
    /\ UNCHANGED <<response_headers, url_map, reg, routed>>

\* lines 36-40
CheckContentType(t) ==
    LET r == inst[t]
        r1 == [r EXCEPT !.method = Lower(r.request.method)]
    IN  /\ r.pc = "dispatch"
        /\ inst' = [inst EXCEPT ![t] =
                       IF ContentTypeRejected(r.request)
                       THEN Raise(r1, "content_type",
                                  ErrorArgs("Request payload mimetype must be 'application/json'",
                                            <<415>>, <<>>))
                       ELSE [r1 EXCEPT !.pc = "ct_ok"]]
        /\ UNCHANGED <<response_headers, url_map, reg, routed>>

\* lines 43-46
CheckMethod(t) ==
    LET r == inst[t]
    IN  /\ r.pc = "ct_ok"
        /\ inst' = [inst EXCEPT ![t] =
                       IF MethodRejected(r.view, r.method)
                       THEN Raise(r, "method",
                                  ErrorArgs("HTTP method is not supported", <<405>>, <<>>))
                       ELSE [r EXCEPT !.pc = "method_ok"]]
        /\ UNCHANGED <<response_headers, url_map, reg, routed>>

\* line 48: the hook of the view class returns the arguments, or raises
Hooked(r, ret) ==
    [r EXCEPT !.pc = "hooked", !.hook_calls = @ + 1, !.hook_ret = ret]

DispatchInit(t, I) ==
    LET r == inst[t]
    IN  /\ r.pc = "method_ok"
        /\ \/ inst' = [inst EXCEPT ![t] = Hooked(r, dispatch_init(r.kwargs))]
           \/ inst' = [inst EXCEPT ![t] = Hooked(r, normalizing_dispatch_init(r.kwargs))]
           \/ \E e \in I.hook_errors :
                 inst' = [inst EXCEPT ![t] =
                             Raise([r EXCEPT !.hook_calls = @ + 1], "hook", e)]
        /\ UNCHANGED <<response_headers, url_map, reg, routed>>

\* line 50: the arguments the handler is called with
HandlerKwargsFromRequest(r) == r.kwargs

HandlerKwargs(r) == r.hook_ret

\* line 50: the handler runs; it may set self.response_status, set a response
\* header (self.response_headers[name] = value, or by assigning a new dict),
\* and returns a value or raises an api_error
CallHandler(t, I) ==
    LET r == inst[t]
        called == [r EXCEPT !.handler_calls = @ + 1, !.handler_kwargs = HandlerKwargs(r)]
    IN  /\ r.pc = "hooked"
        /\ \/ \E out \in I.outputs, st \in I.statuses, op \in I.header_ops :
                 /\ inst' = [inst EXCEPT ![t] =
                                [called EXCEPT
                                    !.pc = "handled",
                                    !.output = out,
                                    !.response_status = st,
                                    !.own_headers = IF op = "assign" THEN <<{"Location"}>> ELSE @,
                                    !.set_headers = IF op = "none" THEN {} ELSE {"Location"}]]
                 /\ response_headers' =
                        IF op = "setitem" THEN response_headers \cup {"Location"}
                        ELSE response_headers
           \/ \E e \in I.handler_errors :
                 /\ inst' = [inst EXCEPT ![t] = Raise(called, "handler", e)]
                 /\ UNCHANGED response_headers
        /\ UNCHANGED <<url_map, reg, routed>>

\* self.response_headers as build_response reads it: the instance's own dict
\* if one was assigned, else the class attribute
SelfResponseHeaders(r) ==
    IF r.own_headers # <<>> THEN r.own_headers[1] ELSE response_headers

\* lines 61-72
build_response(r, body) ==
    [kind |-> "built",
     body |-> body,
     status |-> BuildStatus(r.response_status, Lower(r.request.method), body),
     mimetype |-> BuildMimetype(body),
     headers |-> SelfResponseHeaders(r)]

\* lines 53-59
Finish(t) ==
    LET r == inst[t]
    IN  /\ r.pc = "handled"
        /\ inst' = [inst EXCEPT ![t] =
                       IF IsBaseResponse(r.output)
                       THEN [r EXCEPT !.pc = "returned",
                                      !.response = <<[kind |-> "passthrough", object |-> r.output]>>]
                       ELSE IF r.output # None /\ ~Serializable(r.output)
                       THEN [r EXCEPT !.pc = "raised", !.raised_by = "json",
                                      !.error = <<[type |-> "TypeError",
                                                   message |-> "is not JSON serializable"]>>]
                       ELSE [r EXCEPT !.pc = "returned",
                                      !.response = <<build_response(r, JsonBody(r.output))>>]]
        /\ UNCHANGED <<response_headers, url_map, reg, routed>>

\* lines 203-205: the handler restle() registers for api_error
HandleInvalidUsage(t) ==
    LET r == inst[t]
    IN  /\ r.pc = "raised"
        /\ r.error[1].type = "api_error"
        /\ inst' = [inst EXCEPT ![t] =
                       [r EXCEPT !.pc = "answered",
                                 !.response = <<ErrorResponse(r.error[1])>>,
                                 !.error = <<[r.error[1] EXCEPT
                                                !.payload = payload_after_to_dict(r.error[1])]>>]]
        /\ UNCHANGED <<response_headers, url_map, reg, routed>>

\* Any other exception is not this library's: it reaches the framework
Propagate(t) ==
    LET r == inst[t]
    IN  /\ r.pc = "raised"
        /\ r.error[1].type # "api_error"
        /\ inst' = [inst EXCEPT ![t] = [r EXCEPT !.pc = "propagated"]]
        /\ UNCHANGED <<response_headers, url_map, reg, routed>>

\* The response has been sent; the instance is dropped
Recycle(t) ==
    /\ inst[t].pc \in {"returned", "answered", "propagated"}
    /\ inst' = [inst EXCEPT ![t] = IdleInst]
    /\ UNCHANGED <<response_headers, url_map, reg, routed>>

----------------------------------------------------------------------------
(* register_api and the router                                             *)

\* A URL is the sequence of its pieces: "/widgets/" is <<"/", "widgets", "/">>.
\* '%s<%s:%s>' % (url, pk_type, pk)
ItemRuleWithSlash(url, pk_type, pk) == url \o <<"/", "<", pk_type, ":", pk, ">">>

ItemRule(url, pk_type, pk) == url \o <<"<", pk_type, ":", pk, ">">>

\* blueprint.add_url_rule(rule, defaults=..., view_func=..., methods=...)
add_url_rule(map, rule, defaults, view_func, methods) ==
    Append(map, [rule |-> rule, defaults |-> defaults,
                 view_func |-> view_func, methods |-> methods])

\* lines 107-115
register_api(map, view, endpoint, url, pk, pk_type) ==
    LET view_func == [view |-> view, endpoint |-> endpoint]
        m1 == add_url_rule(map, url, {<<pk, None>>}, view_func, {"GET"})
        m2 == add_url_rule(m1, url, {}, view_func, {"POST"})
    IN  add_url_rule(m2, ItemRule(url, pk_type, pk), {}, view_func, {"GET", "PUT", "DELETE"})

RegisterApi ==
    /\ reg.state = "configured"
    /\ url_map' = register_api(url_map, reg.view, reg.endpoint, reg.url, reg.pk, reg.pk_type)
    /\ reg' = [reg EXCEPT !.state = "registered"]
    /\ UNCHANGED <<response_headers, inst, routed>>

\* The (method, path) pairs the rules declare
Routes(map) ==
    UNION {{<<m, map[i].rule>> : m \in map[i].methods} : i \in DOMAIN map}

\* The router: a rule without a converter matches its own path; a rule ending
\* in <converter:name> matches its static part followed by one more segment,
\* which both the int and the string converter take when it is a number.
IsItemRule(rule) == Len(rule) >= 5 /\ rule[Len(rule)] = ">"
StaticPart(rule) == IF IsItemRule(rule) THEN SubSeq(rule, 1, Len(rule) - 5) ELSE rule

RuleMatches(rule, path) ==
    /\ StaticPart(rule.rule) = path.static
    /\ IsItemRule(rule.rule) <=> path.id # <<>>

MaxId == 2

RequestPaths ==
    {[static |-> s, id |-> i] :
        s \in {<<"/", "widgets">>, <<"/", "widgets", "/">>},
        i \in {<<>>} \cup {<<n>> : n \in 1..MaxId}}

\* A request is matched against the map: the view of the first rule that takes
\* its path and method, 405 if rules take the path but not the method, else 404
Route ==
    /\ reg.state = "registered"
    /\ \E m \in {"GET", "POST", "PUT", "PATCH", "DELETE"}, path \in RequestPaths :
          LET on_path == {i \in DOMAIN url_map : RuleMatches(url_map[i], path)}
              hits == {i \in on_path : m \in url_map[i].methods}
          IN  routed' =
                 [method |-> m, path |-> path,
                  answer |-> IF hits # {} THEN "view" ELSE IF on_path # {} THEN "405" ELSE "404"]
    /\ UNCHANGED <<response_headers, inst, url_map, reg>>

----------------------------------------------------------------------------
(* Specifications                                                          *)

Payloads ==
    {<<>>, <<{}>>,
     <<{<<"field", "name">>}>>,
     <<{<<"error_message", "old">>}>>,
     <<{<<"field", "name">>, <<"error_message", "old">>}>>}

FullInputs ==
    [methods |-> {"GET", "POST", "PUT", "PATCH", "DELETE", "HEAD"},
     content_types |-> {"", "application/json", "application/json; charset=utf-8",
                        "text/plain", "application/x-www-form-urlencoded"},
     bodies |-> {"", "payload"},
     views |-> {"WidgetAPI", "ReadOnlyAPI"},
     kwargs |-> {None, "7"},
     hook_errors |-> {ErrorArgs("invalid id", <<>>, <<>>)},
     outputs |-> {None, "''", "[]", "{}", "0", "[1]", "{'a': 1}", "BaseResponse()", "Response()"},
     statuses |-> {<<>>, <<200>>, <<404>>},
     header_ops |-> {"none", "setitem", "assign"},
     handler_errors |-> {ErrorArgs(m, s, p) :
                            m \in {"bad", "X not found"}, s \in {<<>>, <<404>>}, p \in Payloads}]

\* The inputs of the two-worker specification
ConcInputs ==
    [methods |-> {"GET", "PUT"},
     content_types |-> {"application/json"},
     bodies |-> {""},
     views |-> {"WidgetAPI"},
     kwargs |-> {None},
     hook_errors |-> {ErrorArgs("invalid id", <<>>, <<>>)},
     outputs |-> {None, "[1]", "Response()"},
     statuses |-> {<<>>, <<404>>},
     header_ops |-> {"none", "setitem", "assign"},
     handler_errors |-> {ErrorArgs("bad", <<>>, <<>>)}]

NoRegistration ==
    [state |-> "none", view |-> "-", endpoint |-> "-", url |-> <<>>, pk |-> "-", pk_type |-> "-"]

NotRouted == [method |-> "-", path |-> [static |-> <<>>, id |-> <<>>], answer |-> "-"]

Init ==
    /\ response_headers = {}
    /\ inst = [t \in Threads |-> IdleInst]
    /\ url_map = <<>>
    /\ reg = NoRegistration
    /\ routed = NotRouted

Step(t, I) ==
    \/ Receive(t, I)
    \/ CheckContentType(t)
    \/ CheckMethod(t)
    \/ DispatchInit(t, I)
    \/ CallHandler(t, I)
    \/ Finish(t)
    \/ HandleInvalidUsage(t)
    \/ Propagate(t)
    \/ Recycle(t)

\* One worker serving requests one after the other
Next == Step("t1", FullInputs)

Spec == Init /\ [][Next]_vars

\* Two workers serving requests of the same resource at the same time
NextConc == \E t \in Threads : Step(t, ConcInputs)

SpecConc == Init /\ [][NextConc]_vars

\* An application at start-up calling register_api, then routing requests
InitReg ==
    /\ response_headers = {}
    /\ inst = [t \in Threads |-> IdleInst]
    /\ url_map = <<>>
    /\ routed = NotRouted
    /\ \E url \in {<<"/", "widgets">>, <<"/", "widgets", "/">>},
          pk \in {"id", "widget_id"}, pk_type \in {"int", "string"},
          view \in {"WidgetAPI", "ReadOnlyAPI"} :
          reg = [state |-> "configured", view |-> view, endpoint |-> "widget_api",
                 url |-> url, pk |-> pk, pk_type |-> pk_type]

NextReg == RegisterApi \/ Route

SpecReg == InitReg /\ [][NextReg]_vars

----------------------------------------------------------------------------
(* Properties                                                              *)

Five == {"get", "post", "put", "patch", "delete"}

\* dispatch_request has ended for the request of r: it returned or raised
Ended(r) == r.pc \in {"returned", "raised", "answered", "propagated"}

\* The method default the specification states
SpecDefault(method) == IF method = "PUT" THEN 201 ELSE 200

\* C1: every request with a non-empty body whose media type is not
\* application/json fails with 415 at the content-type check, whatever its
\* method, and neither the hook nor a handler runs.  ("Content type" is read as
\* the media type, so that a charset parameter does not count against the claim.)
C1_Claim ==
    \A t \in Threads :
        LET r == inst[t]
        IN  (/\ r.pc \notin {"idle", "dispatch"}
             /\ r.request.body # ""
             /\ Mimetype(r.request.content_type) # "application/json")
            => /\ r.raised_by = "content_type"
               /\ r.error[1].status_code = 415
               /\ r.hook_calls = 0
               /\ r.handler_calls = 0

\* C2: once the content-type check has passed, a method outside the five or
\* one the resource has no handler for fails with 405 raised by the method
\* check, before the hook and any handler; a method of the five with a handler
\* is not failed by the method check.
C2_MethodCheck ==
    \A t \in Threads :
        LET r == inst[t]
            m == Lower(r.request.method)
        IN  (r.pc \notin {"idle", "dispatch", "ct_ok"} /\ r.raised_by # "content_type")
            => IF m \notin Five \/ m \notin Handlers(r.view)
               THEN /\ r.pc \in {"raised", "answered"}
                    /\ r.raised_by = "method"
                    /\ r.error[1].type = "api_error"
                    /\ r.error[1].status_code = 405
                    /\ r.hook_calls = 0
                    /\ r.handler_calls = 0
                    /\ r.pc = "answered" => r.response[1].status = 405
               ELSE r.raised_by # "method"

C2_Witness ==
    \E t \in Threads :
        LET r == inst[t]
        IN  /\ r.pc = "answered"
            /\ r.request.method = "PATCH"
            /\ r.view = "ReadOnlyAPI"
            /\ r.raised_by = "method"
            /\ r.response[1].status = 405

\* C3 as stated: a handler returning None or an empty value, with no status
\* override, gives 204 with no body and no content type for GET, POST, PATCH
\* and DELETE, and 201 with no body for PUT.
C3_Claim ==
    \A t \in Threads :
        LET r == inst[t]
        IN  (/\ r.pc = "returned"
             /\ r.output \in {None, "''", "[]", "{}"}
             /\ r.response_status = <<>>)
            => /\ r.response[1].kind = "built"
               /\ Falsy(r.response[1].body)
               /\ IF r.request.method = "PUT"
                  THEN r.response[1].status = 201
                  ELSE r.response[1].status = 204 /\ r.response[1].mimetype = None

\* C3 amended: with no status override, a handler returning None gives 204
\* with no body and no content type (201 with no body for PUT); an empty list,
\* mapping or string (or a zero) is serialized like any other value: the body
\* is its JSON text, the content type application/json, the status the method
\* default.
C3_NoneOnly ==
    \A t \in Threads :
        LET r == inst[t]
            resp == r.response[1]
        IN  (r.pc = "returned" /\ r.response_status = <<>>)
            => /\ r.output = None
                  => /\ resp.kind = "built"
                     /\ resp.body = None
                     /\ resp.mimetype = None
                     /\ resp.status = IF r.request.method = "PUT" THEN 201 ELSE 204
               /\ r.output \in {"''", "[]", "{}", "0"}
                  => /\ resp.kind = "built"
                     /\ resp.body = (CASE r.output = "''" -> "\"\""
                                       [] r.output = "[]" -> "[]"
                                       [] r.output = "{}" -> "{}"
                                       [] r.output = "0" -> "0")
                     /\ resp.mimetype = "application/json"
                     /\ resp.status = SpecDefault(r.request.method)

C3_Witness ==
    \E t \in Threads :
        LET r == inst[t]
        IN  /\ r.pc = "returned"
            /\ r.response_status = <<>>
            /\ r.output = "[]"
            /\ r.request.method = "GET"
            /\ r.response[1].body = "[]"
            /\ r.response[1].status = 200

\* C4: a non-empty value that is no response object is answered with its JSON
\* text as body, content type application/json and the override if one is set,
\* else the method default, as status; the status is never downgraded to 204.
C4_NonEmptyValue ==
    \A t \in Threads :
        LET r == inst[t]
            resp == r.response[1]
        IN  (r.pc = "returned" /\ r.output \in {"[1]", "{'a': 1}"})
            => /\ resp.kind = "built"
               /\ resp.body = (IF r.output = "[1]" THEN "[\n    1\n]"
                               ELSE "{\n    \"a\": 1\n}")
               /\ resp.mimetype = "application/json"
               /\ resp.status = (IF r.response_status # <<>> THEN r.response_status[1]
                                 ELSE SpecDefault(r.request.method))
               /\ resp.status # 204

C4_Witness ==
    \E t \in Threads :
        LET r == inst[t]
        IN  /\ r.pc = "returned"
            /\ r.output = "[1]"
            /\ r.request.method = "POST"
            /\ r.response_status = <<>>
            /\ r.response[1].status = 200
            /\ r.response[1].mimetype = "application/json"

\* C5: a built response has one status: the override if set, else the method
\* default, turned into 204 when it is 200 and the body is empty, also when the
\* 200 is an override; an empty body never goes out with 200 and an override
\* other than 200 is returned as it is.
C5_OneStatus ==
    \A t \in Threads :
        LET r == inst[t]
            resp == r.response[1]
            computed == IF r.response_status # <<>> THEN r.response_status[1]
                        ELSE SpecDefault(r.request.method)
            empty == resp.body = None \/ resp.body = ""
        IN  (r.pc = "returned" /\ resp.kind = "built")
            => /\ resp.status = (IF computed = 200 /\ empty THEN 204 ELSE computed)
               /\ empty => resp.status # 200
               /\ (r.response_status # <<>> /\ r.response_status[1] # 200)
                  => resp.status = r.response_status[1]

C5_Witness ==
    \E t \in Threads :
        LET r == inst[t]
        IN  /\ r.pc = "returned"
            /\ r.response_status = <<200>>
            /\ r.output = None
            /\ r.response[1].kind = "built"
            /\ r.response[1].status = 204

\* C6 as stated: register_api at base /widgets with pk "id" and pk_type int
\* registers exactly GET and POST on /widgets and GET, PUT and DELETE on
\* /widgets/<int:id>, the base followed by a "/" and the primary-key segment.
C6_Claim ==
    (/\ reg.state = "registered"
     /\ reg.url = <<"/", "widgets">>
     /\ reg.pk = "id"
     /\ reg.pk_type = "int")
    => Routes(url_map) =
          {<<"GET", <<"/", "widgets">>>>, <<"POST", <<"/", "widgets">>>>}
          \cup {<<m, <<"/", "widgets", "/", "<", "int", ":", "id", ">">>>> :
                   m \in {"GET", "PUT", "DELETE"}}

\* C6 amended: register_api declares exactly five (method, path) routes, all
\* bound to the same view: GET <url> (with pk defaulted to None), POST <url>,
\* and GET, PUT and DELETE on the item path, which is the base immediately
\* followed by the primary-key segment with no "/" put between them (base
\* /widgets gives /widgets<int:id>; only a base ending in "/" gives
\* /widgets/<int:id>); no PATCH route is declared.
C6_Routes ==
    reg.state = "registered"
    => LET item == reg.url \o <<"<">> \o <<reg.pk_type>> \o <<":">> \o <<reg.pk>> \o <<">">>
       IN  /\ Routes(url_map) =
                 {<<"GET", reg.url>>, <<"POST", reg.url>>}
                 \cup {<<m, item>> : m \in {"GET", "PUT", "DELETE"}}
           /\ Cardinality(Routes(url_map)) = 5
           /\ \A i, j \in DOMAIN url_map : url_map[i].view_func = url_map[j].view_func
           /\ \A i \in DOMAIN url_map :
                 /\ url_map[i].view_func.view = reg.view
                 /\ "PATCH" \notin url_map[i].methods
                 /\ (url_map[i].rule = reg.url /\ "GET" \in url_map[i].methods)
                    => url_map[i].defaults = {<<reg.pk, "None">>}
           /\ (reg.url = <<"/", "widgets">> /\ reg.pk = "id" /\ reg.pk_type = "int")
              => <<"PUT", <<"/", "widgets", "<", "int", ":", "id", ">">>>> \in Routes(url_map)

C6_Witness ==
    /\ reg.state = "registered"
    /\ reg.url = <<"/", "widgets">>
    /\ reg.pk = "id"
    /\ reg.pk_type = "int"
    /\ routed.method = "PUT"
    /\ routed.path = [static |-> <<"/", "widgets">>, id |-> <<1>>]
    /\ routed.answer = "view"

\* C7: an api_error with message m, status code s (400 when none is given)
\* and optional payload p is answered by the global handler with the JSON of
\* p's entries plus error_message = m (m replacing an error_message of p),
\* status s and content type application/json; p itself stays as it was.
C7_ErrorBody ==
    \A t \in Threads :
        LET r == inst[t]
            a == r.raise_args[1]
            p == IF a.payload = <<>> THEN {} ELSE a.payload[1]
            expected == {kv \in p : kv[1] # "error_message"}
                        \cup {<<"error_message", a.message>>}
            resp == r.response[1]
            members == resp.body.json_object
        IN  r.pc = "answered"
            => /\ {members[i] : i \in DOMAIN members} = expected
               /\ Len(members) = Cardinality(expected)
               /\ resp.status = (IF a.status_code = <<>> THEN 400 ELSE a.status_code[1])
               /\ resp.mimetype = "application/json"
               /\ r.error[1].payload = a.payload

C7_Witness ==
    \E t \in Threads :
        LET r == inst[t]
        IN  /\ r.pc = "answered"
            /\ r.raised_by = "handler"
            /\ r.raise_args[1] = ErrorArgs("bad", <<>>,
                                           <<{<<"field", "name">>, <<"error_message", "old">>}>>)
            /\ r.response[1].status = 400
            /\ r.response[1].body.json_object =
                  <<<<"error_message", "bad">>, <<"field", "name">>>>

\* C8: the status and the headers of each response depend only on what that
\* request's own handler set: the headers sent are those its handler set, the
\* status is the one computed from its own override.
C8_Claim ==
    \A t \in Threads :
        LET r == inst[t]
            resp == r.response[1]
        IN  (r.pc = "returned" /\ resp.kind = "built")
            => /\ resp.headers = r.set_headers
               /\ resp.status = BuildStatus(r.response_status, Lower(r.request.method), resp.body)

\* C9: a response object a handler returns, of the framework's response class
\* or of any subclass of the base response type, is returned as it is.
C9_Claim ==
    \A t \in Threads :
        LET r == inst[t]
        IN  (Ended(r) /\ r.handler_calls = 1 /\ r.output \in {"BaseResponse()", "Response()"})
            => /\ r.pc = "returned"
               /\ r.response[1] = [kind |-> "passthrough", object |-> r.output]

\* C10: the hook runs at most once, only after the 415 and 405 checks have
\* passed and before the handler; the handler gets exactly the arguments the
\* hook returned; if the hook raises, the handler is not called and the error
\* reaches the error handler as it was raised.
C10_HookOrder ==
    \A t \in Threads :
        LET r == inst[t]
        IN  /\ r.hook_calls <= 1
            /\ r.handler_calls <= 1
            /\ r.hook_calls = 1
               => /\ ~ContentTypeRejected(r.request)
                  /\ Lower(r.request.method) \in Five
                  /\ Lower(r.request.method) \in Handlers(r.view)
                  /\ r.raised_by \notin {"content_type", "method"}
            /\ r.handler_calls = 1
               => /\ r.hook_calls = 1
                  /\ r.raised_by # "hook"
                  /\ r.handler_kwargs = r.hook_ret
            /\ r.raised_by = "hook"
               => /\ r.handler_calls = 0
                  /\ r.error[1].message = r.raise_args[1].message
                  /\ r.error[1].payload = r.raise_args[1].payload
                  /\ r.pc = "answered" => r.response[1].status = r.error[1].status_code

C10_Witness ==
    \E t \in Threads :
        LET r == inst[t]
        IN  /\ r.handler_calls = 1
            /\ r.hook_calls = 1
            /\ r.kwargs = "7"
            /\ r.hook_ret = "n7"
            /\ r.handler_kwargs = "n7"

====
